---- MODULE Spec2Model ----
(***************************************************************************)
(* Model of the service.followup addon: the ServiceFollowup record with    *)
(* its workflow actions, the rating constraint, and the scheduled action   *)
(* cron_followup_reminder that creates mail.activity reminders.            *)
(*                                                                         *)
(* Time is counted in ticks, TicksPerDay ticks to a day; fields.Date.today *)
(* is the day the current tick falls in.  A field that holds Python False  *)
(* (an unset Datetime, an unset rating) holds False_.                      *)
(***************************************************************************)
EXTENDS Integers, Sequences, FiniteSets, Bags, TLC

\* ---- bounds of the model ----
\* records in the table under Spec and RatingSpec / under BatchSpec
MaxRecords == 2
BatchRecords == 3
MaxDay == 3
TicksPerDay == 2
\* chatter messages per record (each workflow action posts one)
MaxMessages == 2

\* ---- program constants ----
\* search(..., limit=50): the batch cap, scaled down from 50 so that more
\* records than the cap can qualify within BatchRecords.
BatchLimit == 2
\* relativedelta(days=2)
ReminderDays == 2
\* xml id mail.mail_activity_data_todo and the type the name search finds
TodoRefId == 1
TodoNamedId == 2

False_ == -1

MaxTime == MaxDay * TicksPerDay
Users == {1, 2}
States == <<"draft", "sent", "replied", "closed">>
RatingInputs == {-2, 0, 1, 10, 11}
\* appointment dates a record is created with
AppointmentDates == {False_, 0}
\* sent_at values the tests create records with: now - 1 day, now - 3 days
SentDelays == {1, 3}

MsgSent == "Follow-up marked as sent."
MsgReply == "Customer reply logged."
MsgClosed == "Follow-up closed."

VARIABLES
    followups,      \* table service_followup: sequence of rows, id = index
    messages,       \* chatter: per record, the sequence of posted bodies
    activities,     \* table mail_activity restricted to res_model = service.followup: a bag of rows
    now,            \* the clock, in ticks
    activity_types, \* [xmlid, named]: what env.ref and the name search find (0 = nothing)
    error,          \* the exception the last operation raised ("" = none)
    scans           \* per running invocation of the scheduled action: its position and locals

vars == <<followups, messages, activities, now, activity_types, error, scans>>

\* invocations of the scheduled action that may run at the same time
Procs == {1, 2}

\* an invocation that is not running
Idle == [pc |-> "idle", ids |-> <<>>, type |-> 0]

Ids == DOMAIN followups

Min(a, b) == IF a < b THEN a ELSE b

\* fields.Date.today()
Today(t) == t \div TicksPerDay

\* field defaults of a new record
NewFollowup(user, appointment) ==
    [ appointment_date |-> appointment,
      assigned_user_id |-> user,
      state            |-> "draft",
      sent_at          |-> False_,
      replied_at       |-> False_,
      rating           |-> False_ ]

\* _check_rating_range: TRUE when the constraint raises ValidationError
RatingCheckNeverRaises(record) ==
    record.rating # False_ /\ (record.rating < 1 /\ record.rating > 10)

RatingCheckRejectsOne(record) ==
    record.rating # False_ /\ (record.rating <= 1 \/ record.rating > 10)

_check_rating_range(record) ==
    record.rating # False_ /\ (record.rating < 1 \/ record.rating > 10)

\* ---- record operations ----

\* create({...}) with the defaults
Create(max, user, appointment) ==
    /\ Len(followups) < max
    /\ followups' = Append(followups, NewFollowup(user, appointment))
    /\ messages' = Append(messages, <<>>)
    /\ error' = ""
    /\ UNCHANGED <<activities, now, activity_types, scans>>

\* create({..., 'state': st, 'sent_at': now - d, 'replied_at': ...}) as the tests do
CreateWithState(user, st, d) ==
    /\ Len(followups) < MaxRecords
    /\ now - d * TicksPerDay >= 0
    /\ followups' = Append(followups,
            [ NewFollowup(user, False_) EXCEPT
                !.state = st,
                !.sent_at = now - d * TicksPerDay,
                !.replied_at = IF st = "replied" THEN now ELSE False_ ])
    /\ messages' = Append(messages, <<>>)
    /\ error' = ""
    /\ UNCHANGED <<activities, now, activity_types, scans>>

\* create({..., 'rating': v}): the constraint also runs on creation
CreateWithRating(v) ==
    /\ Len(followups) < MaxRecords
    /\ LET created == [NewFollowup(1, False_) EXCEPT !.rating = v]
       IN  IF _check_rating_range(created)
           THEN /\ error' = "ValidationError"
                /\ UNCHANGED <<followups, messages>>
           ELSE /\ error' = ""
                /\ followups' = Append(followups, created)
                /\ messages' = Append(messages, <<>>)
    /\ UNCHANGED <<activities, now, activity_types, scans>>

\* message_post(body=...)
message_post(i, body) ==
    messages' = [messages EXCEPT ![i] = Append(@, body)]

MarkSentWithoutTimestamp(i) ==
    /\ i \in Ids
    /\ Len(messages[i]) < MaxMessages
    /\ followups' = [followups EXCEPT ![i].state = "sent"]
    /\ message_post(i, MsgSent)
    /\ error' = ""
    /\ UNCHANGED <<activities, now, activity_types, scans>>

action_mark_sent(i) ==
    /\ i \in Ids
    /\ Len(messages[i]) < MaxMessages
    /\ followups' = [followups EXCEPT ![i].state = "sent", ![i].sent_at = now]
    /\ message_post(i, MsgSent)
    /\ error' = ""
    /\ UNCHANGED <<activities, now, activity_types, scans>>

action_log_reply(i) ==
    /\ i \in Ids
    /\ Len(messages[i]) < MaxMessages
    /\ followups' = [followups EXCEPT ![i].state = "replied", ![i].replied_at = now]
    /\ message_post(i, MsgReply)
    /\ error' = ""
    /\ UNCHANGED <<activities, now, activity_types, scans>>

action_close(i) ==
    /\ i \in Ids
    /\ Len(messages[i]) < MaxMessages
    /\ followups' = [followups EXCEPT ![i].state = "closed"]
    /\ message_post(i, MsgClosed)
    /\ error' = ""
    /\ UNCHANGED <<activities, now, activity_types, scans>>

\* the recordsets the actions below are called on
Recordsets == SUBSET Ids \ {{}}

\* action_mark_sent on a recordset: the loop writes and posts on each member
MarkSentAllOnlyFromDraft(S) ==
    /\ S \in Recordsets
    /\ \A i \in S : Len(messages[i]) < MaxMessages
    /\ \A i \in S : followups[i].state = "draft"
    /\ followups' = [i \in Ids |->
            IF i \in S THEN [followups[i] EXCEPT !.state = "sent", !.sent_at = now]
            ELSE followups[i]]
    /\ messages' = [i \in Ids |->
            IF i \in S THEN Append(messages[i], MsgSent) ELSE messages[i]]
    /\ error' = ""
    /\ UNCHANGED <<activities, now, activity_types, scans>>

MarkSentAllKeepsFirstTimestamp(S) ==
    /\ S \in Recordsets
    /\ \A i \in S : Len(messages[i]) < MaxMessages
    /\ followups' = [i \in Ids |->
            IF i \in S
            THEN [followups[i] EXCEPT !.state = "sent",
                                      !.sent_at = IF @ = False_ THEN now ELSE @]
            ELSE followups[i]]
    /\ messages' = [i \in Ids |->
            IF i \in S THEN Append(messages[i], MsgSent) ELSE messages[i]]
    /\ error' = ""
    /\ UNCHANGED <<activities, now, activity_types, scans>>

action_mark_sent_all(S) ==
    /\ S \in Recordsets
    /\ \A i \in S : Len(messages[i]) < MaxMessages
    /\ followups' = [i \in Ids |->
            IF i \in S THEN [followups[i] EXCEPT !.state = "sent", !.sent_at = now]
            ELSE followups[i]]
    /\ messages' = [i \in Ids |->
            IF i \in S THEN Append(messages[i], MsgSent) ELSE messages[i]]
    /\ error' = ""
    /\ UNCHANGED <<activities, now, activity_types, scans>>

\* action_log_reply on a recordset
LogReplyAllWithoutTimestamp(S) ==
    /\ S \in Recordsets
    /\ \A i \in S : Len(messages[i]) < MaxMessages
    /\ followups' = [i \in Ids |->
            IF i \in S THEN [followups[i] EXCEPT !.state = "replied"]
            ELSE followups[i]]
    /\ messages' = [i \in Ids |->
            IF i \in S THEN Append(messages[i], MsgReply) ELSE messages[i]]
    /\ error' = ""
    /\ UNCHANGED <<activities, now, activity_types, scans>>

action_log_reply_all(S) ==
    /\ S \in Recordsets
    /\ \A i \in S : Len(messages[i]) < MaxMessages
    /\ followups' = [i \in Ids |->
            IF i \in S THEN [followups[i] EXCEPT !.state = "replied", !.replied_at = now]
            ELSE followups[i]]
    /\ messages' = [i \in Ids |->
            IF i \in S THEN Append(messages[i], MsgReply) ELSE messages[i]]
    /\ error' = ""
    /\ UNCHANGED <<activities, now, activity_types, scans>>

\* action_close on a recordset
action_close_all(S) ==
    /\ S \in Recordsets
    /\ \A i \in S : Len(messages[i]) < MaxMessages
    /\ followups' = [i \in Ids |->
            IF i \in S THEN [followups[i] EXCEPT !.state = "closed"]
            ELSE followups[i]]
    /\ messages' = [i \in Ids |->
            IF i \in S THEN Append(messages[i], MsgClosed) ELSE messages[i]]
    /\ error' = ""
    /\ UNCHANGED <<activities, now, activity_types, scans>>

\* write({'rating': v}); the constraint runs on the written record and a
\* ValidationError rolls the write back
SetRating(i, v) ==
    /\ i \in Ids
    /\ LET written == [followups[i] EXCEPT !.rating = v]
       IN  IF _check_rating_range(written)
           THEN /\ error' = "ValidationError"
                /\ UNCHANGED followups
           ELSE /\ error' = ""
                /\ followups' = [followups EXCEPT ![i] = written]
    /\ UNCHANGED <<messages, activities, now, activity_types, scans>>

\* write({'assigned_user_id': u})
SetAssignedUser(i, u) ==
    /\ i \in Ids
    /\ followups' = [followups EXCEPT ![i].assigned_user_id = u]
    /\ error' = ""
    /\ UNCHANGED <<messages, activities, now, activity_types, scans>>

Tick ==
    /\ now < MaxTime
    /\ now' = now + 1
    /\ UNCHANGED <<followups, messages, activities, activity_types, error, scans>>

\* ---- the scheduled action ----

OverdueIgnoringReply(f, t) ==
    /\ f.state = "sent"
    /\ f.sent_at # False_
    /\ f.sent_at <= t - ReminderDays * TicksPerDay

OverdueStrictlyBeforeCutoff(f, t) ==
    /\ f.state = "sent"
    /\ f.sent_at # False_
    /\ f.sent_at < t - ReminderDays * TicksPerDay
    /\ f.replied_at = False_

\* the search domain of cron_followup_reminder
Overdue(f, t) ==
    /\ f.state = "sent"
    /\ f.sent_at # False_
    /\ f.sent_at <= t - ReminderDays * TicksPerDay
    /\ f.replied_at = False_

\* _order = 'appointment_date desc, id desc' (a NULL date sorts first in a
\* descending PostgreSQL order)
OrderBefore(fs, a, b) ==
    LET x == fs[a].appointment_date
        y == fs[b].appointment_date
    IN  IF x # y
        THEN IF x = False_ THEN TRUE ELSE IF y = False_ THEN FALSE ELSE x > y
        ELSE a > b

RECURSIVE SortIds(_, _)
SortIds(fs, S) ==
    IF S = {} THEN <<>>
    ELSE LET h == CHOOSE a \in S : \A b \in S \ {a} : OrderBefore(fs, a, b)
         IN  <<h>> \o SortIds(fs, S \ {h})

SearchOverdueNoLimit(fs, t) ==
    SortIds(fs, {i \in DOMAIN fs : Overdue(fs[i], t)})

\* self.search(domain, limit=50)
SearchOverdue(fs, t) ==
    LET found == SortIds(fs, {i \in DOMAIN fs : Overdue(fs[i], t)})
    IN  SubSeq(found, 1, Min(BatchLimit, Len(found)))

\* env.ref(..., raise_if_not_found=False), then the fallback name search
ResolveActivityType(types) ==
    IF types.xmlid # 0 THEN types.xmlid ELSE types.named

\* the existence search of the loop body
ExistingActivityLate(acts, i, type, user, today) ==
    \E a \in BagToSet(acts) :
        /\ a.res_id = i
        /\ a.activity_type_id = type
        /\ a.user_id = user
        /\ a.date_deadline > today

ExistingActivityAnyDate(acts, i, type, user, today) ==
    \E a \in BagToSet(acts) :
        /\ a.res_id = i
        /\ a.activity_type_id = type
        /\ a.user_id = user

ExistingActivity(acts, i, type, user, today) ==
    \E a \in BagToSet(acts) :
        /\ a.res_id = i
        /\ a.activity_type_id = type
        /\ a.user_id = user
        /\ a.date_deadline >= today

NewActivityDueYesterday(i, type, user, today) ==
    [ res_id |-> i, activity_type_id |-> type, user_id |-> user,
      date_deadline |-> today - 1 ]

NewActivityForCurrentUser(i, type, user, today) ==
    [ res_id |-> i, activity_type_id |-> type, user_id |-> 1,
      date_deadline |-> today ]

NewActivity(i, type, user, today) ==
    [ res_id |-> i, activity_type_id |-> type, user_id |-> user,
      date_deadline |-> today ]

\* the for loop of cron_followup_reminder over the found records
RECURSIVE RemindAll(_, _, _, _, _)
RemindAll(ids, fs, acts, type, t) ==
    IF ids = <<>> THEN acts
    ELSE LET i == Head(ids)
             user == fs[i].assigned_user_id
             next == IF ExistingActivity(acts, i, type, user, Today(t))
                     THEN acts
                     ELSE acts (+) SetToBag({NewActivity(i, type, user, Today(t))})
         IN  RemindAll(Tail(ids), fs, next, type, t)

CronWithoutEarlyReturn(fs, acts, types, t) ==
    RemindAll(SearchOverdue(fs, t), fs, acts, ResolveActivityType(types), t)

\* the mail_activity table after one run of the scheduled action
cron_followup_reminder(fs, acts, types, t) ==
    LET type == ResolveActivityType(types)
    IN  IF type = 0 THEN acts
        ELSE RemindAll(SearchOverdue(fs, t), fs, acts, type, t)

RunScanPostsMessage ==
    /\ activities' = cron_followup_reminder(followups, activities, activity_types, now)
    /\ messages' = [i \in Ids |->
            IF Overdue(followups[i], now) /\ Len(messages[i]) < MaxMessages
            THEN Append(messages[i], MsgSent) ELSE messages[i]]
    /\ error' = ""
    /\ UNCHANGED <<followups, now, activity_types, scans>>

RunScan ==
    /\ activities' = cron_followup_reminder(followups, activities, activity_types, now)
    /\ error' = ""
    /\ UNCHANGED <<followups, messages, now, activity_types, scans>>

\* ---- the scheduled action, statement by statement ----

\* the record an invocation is working on
Current(p) == Head(scans[p].ids)

\* lines 134-154: the search and the activity type; returns when no type is found
ScanBegin(p) ==
    /\ scans[p].pc = "idle"
    /\ LET type == ResolveActivityType(activity_types)
       IN  scans' = IF type = 0 THEN scans
                    ELSE [scans EXCEPT ![p] = [pc |-> "check",
                                               ids |-> SearchOverdue(followups, now),
                                               type |-> type]]
    /\ UNCHANGED <<followups, messages, activities, now, activity_types, error>>

\* lines 156-166: the end of the loop, or the existence search for the next record
ScanCheck(p) ==
    /\ scans[p].pc = "check"
    /\ scans' = [scans EXCEPT ![p] =
            IF scans[p].ids = <<>> THEN Idle
            ELSE IF ExistingActivity(activities, Current(p), scans[p].type,
                                     followups[Current(p)].assigned_user_id, Today(now))
                 THEN [@ EXCEPT !.ids = Tail(@)]
                 ELSE [@ EXCEPT !.pc = "create"]]
    /\ UNCHANGED <<followups, messages, activities, now, activity_types, error>>

ScanCreateUnlessPresent(p) ==
    /\ scans[p].pc = "create"
    /\ activities' =
            IF ExistingActivity(activities, Current(p), scans[p].type,
                                followups[Current(p)].assigned_user_id, Today(now))
            THEN activities
            ELSE activities (+) SetToBag({NewActivity(Current(p), scans[p].type,
                                followups[Current(p)].assigned_user_id, Today(now))})
    /\ scans' = [scans EXCEPT ![p] = [@ EXCEPT !.pc = "check", !.ids = Tail(@)]]
    /\ UNCHANGED <<followups, messages, now, activity_types, error>>

\* lines 167-180: the creation, after the search found nothing
ScanCreate(p) ==
    /\ scans[p].pc = "create"
    /\ activities' = activities (+) SetToBag({NewActivity(Current(p), scans[p].type,
                            followups[Current(p)].assigned_user_id, Today(now))})
    /\ scans' = [scans EXCEPT ![p] = [@ EXCEPT !.pc = "check", !.ids = Tail(@)]]
    /\ UNCHANGED <<followups, messages, now, activity_types, error>>

\* ---- specifications ----

Init ==
    /\ followups = <<>>
    /\ messages = <<>>
    /\ activities = EmptyBag
    /\ now = 0
    /\ activity_types = [xmlid |-> TodoRefId, named |-> TodoNamedId]
    /\ error = ""
    /\ scans = [p \in Procs |-> Idle]

\* the workflow, the assignee and the scheduled action, on MaxRecords records
Next ==
    \/ \E u \in Users : Create(MaxRecords, u, False_)
    \/ \E u \in Users, st \in {"sent", "replied"}, d \in SentDelays : CreateWithState(u, st, d)
    \/ \E i \in Ids : action_mark_sent(i)
    \/ \E i \in Ids : action_log_reply(i)
    \/ \E i \in Ids : action_close(i)
    \/ \E i \in Ids, u \in Users : SetAssignedUser(i, u)
    \/ Tick
    \/ RunScan

Spec == Init /\ [][Next]_vars

\* the rating writes among the workflow and the scheduled action
RatingNext ==
    \/ Create(MaxRecords, 1, False_)
    \/ \E v \in RatingInputs : CreateWithRating(v)
    \/ \E i \in Ids, v \in RatingInputs : SetRating(i, v)
    \/ \E i \in Ids : action_mark_sent(i)
    \/ \E i \in Ids : action_log_reply(i)
    \/ \E i \in Ids : action_close(i)
    \/ Tick
    \/ RunScan

RatingSpec == Init /\ [][RatingNext]_vars

\* more records than the batch cap, ordered by appointment date
BatchNext ==
    \/ \E a \in AppointmentDates : Create(BatchRecords, 1, a)
    \/ \E i \in Ids : action_mark_sent(i)
    \/ Tick
    \/ RunScan

BatchSpec == Init /\ [][BatchNext]_vars

\* a backlog: BatchRecords follow-ups, created and marked sent at time 0
BacklogInit ==
    /\ followups \in [1..BatchRecords ->
            {[NewFollowup(1, a) EXCEPT !.state = "sent", !.sent_at = 0] : a \in AppointmentDates}]
    /\ messages = [i \in 1..BatchRecords |-> <<MsgSent>>]
    /\ activities = EmptyBag
    /\ now = 0
    /\ activity_types = [xmlid |-> TodoRefId, named |-> TodoNamedId]
    /\ error = ""
    /\ scans = [p \in Procs |-> Idle]

BacklogNext ==
    \/ \E i \in Ids : action_log_reply(i)
    \/ Tick
    \/ RunScan

\* the scheduler runs the scan at every interval and time passes
BacklogSpec == BacklogInit /\ [][BacklogNext]_vars /\ WF_vars(RunScan) /\ WF_vars(Tick)

\* any installation: the xml id may be missing, and no type may be named 'To Do'
EnvInit ==
    /\ followups = <<>>
    /\ messages = <<>>
    /\ activities = EmptyBag
    /\ now = 0
    /\ activity_types \in [xmlid : {0, TodoRefId}, named : {0, TodoNamedId}]
    /\ error = ""
    /\ scans = [p \in Procs |-> Idle]

EnvNext ==
    \/ Create(MaxRecords, 1, False_)
    \/ \E i \in Ids : action_mark_sent(i)
    \/ \E i \in Ids : action_log_reply(i)
    \/ Tick
    \/ RunScan

EnvSpec == EnvInit /\ [][EnvNext]_vars

\* records created with the defaults and moved by the workflow actions only,
\* each action called on a recordset
WorkflowNext ==
    \/ \E u \in Users : Create(MaxRecords, u, False_)
    \/ \E S \in Recordsets : action_mark_sent_all(S)
    \/ \E S \in Recordsets : action_log_reply_all(S)
    \/ \E S \in Recordsets : action_close_all(S)
    \/ Tick

WorkflowSpec == Init /\ [][WorkflowNext]_vars

\* invocations of the scheduled action that overlap
ConcNext ==
    \/ \E d \in SentDelays : CreateWithState(1, "sent", d)
    \/ \E i \in Ids : action_log_reply(i)
    \/ Tick
    \/ \E p \in Procs : ScanBegin(p)
    \/ \E p \in Procs : ScanCheck(p)
    \/ \E p \in Procs : ScanCreate(p)

ConcSpec == Init /\ [][ConcNext]_vars

\* ---- properties ----

RECURSIVE SumCopies(_, _)
SumCopies(acts, S) ==
    IF S = {} THEN 0
    ELSE LET a == CHOOSE x \in S : TRUE
         IN  CopiesIn(a, acts) + SumCopies(acts, S \ {a})

\* the number of activities attached to record i
RemindersFor(acts, i) ==
    SumCopies(acts, {a \in BagToSet(acts) : a.res_id = i})

\* the number of activities attached to record i that are due on day d
RemindersForOn(acts, i, d) ==
    SumCopies(acts, {a \in BagToSet(acts) : a.res_id = i /\ a.date_deadline = d})

\* the table after a run of the scheduled action at time t
AfterScanAt(acts, t) == cron_followup_reminder(followups, acts, activity_types, t)

TypeResolves == ResolveActivityType(activity_types) # 0

Rank(st) == CHOOSE k \in 1..Len(States) : States[k] = st

\* C1 (as claimed): no record has more than one reminder due on the same day.
C1_OneReminderPerRecordPerDay ==
    \A i \in Ids, d \in 0..MaxDay : RemindersForOn(activities, i, d) <= 1

\* C1 (amended): no record has more than one reminder for the same assignee
\* and task type due on the same day.
C1_OneReminderPerRecordAssigneeDay ==
    \A a \in BagToSet(activities) : CopiesIn(a, activities) = 1

\* a record reminded twice on one day, once for each assignee
C1_Witness ==
    \E i \in Ids, d \in 0..MaxDay :
        /\ RemindersForOn(activities, i, d) = 2
        /\ \A a \in BagToSet(activities) : CopiesIn(a, activities) = 1

\* C2: with the task type resolved, no activity yet and no more qualifying
\* records than the cap (fewer, or as many), one scan leaves exactly one
\* reminder on every record that is sent, has sent_at at least 2 days old
\* and no replied_at, and none on any other record.
C2_ScanRemindsExactlyTheOverdue ==
    ( /\ TypeResolves
      /\ activities = EmptyBag
      /\ Cardinality({i \in Ids :
            /\ followups[i].state = "sent"
            /\ followups[i].sent_at # False_
            /\ followups[i].sent_at + ReminderDays * TicksPerDay <= now
            /\ followups[i].replied_at = False_}) <= BatchLimit )
    => \A i \in Ids :
          RemindersFor(AfterScanAt(activities, now), i) =
            IF /\ followups[i].state = "sent"
               /\ followups[i].sent_at # False_
               /\ followups[i].sent_at + ReminderDays * TicksPerDay <= now
               /\ followups[i].replied_at = False_
            THEN 1 ELSE 0

\* the scenario of test_03 after the scan: one record reminded once, for its
\* assignee and due today, next to a record sent less than 2 days ago or a
\* replied one that has no reminder
C2_Witness ==
    \E i, j \in Ids :
        /\ i # j
        /\ followups[i].state = "sent"
        /\ followups[i].sent_at + ReminderDays * TicksPerDay <= now
        /\ followups[i].replied_at = False_
        /\ activities = SetToBag({[ res_id |-> i, activity_type_id |-> TodoRefId,
                                    user_id |-> followups[i].assigned_user_id,
                                    date_deadline |-> Today(now) ]})
        /\ \/ followups[j].state = "sent" /\ followups[j].sent_at + ReminderDays * TicksPerDay > now
           \/ followups[j].state = "replied" /\ followups[j].replied_at # False_

\* C3 (as claimed): when a scan has nothing left to create and the clock
\* moves on within the same day, with no record or task changed, a scan
\* still has nothing to create.
C3_SecondRunSameDayCreatesNothing ==
    [][ ( /\ Tick
          /\ Today(now') = Today(now)
          /\ AfterScanAt(activities, now) = activities )
        => cron_followup_reminder(followups', activities', activity_types', now') = activities' ]_vars

\* C3 (amended): a second scan on the same day, with nothing changed in
\* between, adds no reminder to any record that was overdue at the first
\* scan, and adds none at all when it runs at the same instant.
C3_SecondRunAddsNothingForSameRecords ==
    \A t \in now..MaxTime :
        Today(t) = Today(now) =>
            LET first == AfterScanAt(activities, now)
                second == AfterScanAt(first, t)
            IN  /\ t = now => second = first
                /\ \A i \in Ids :
                      ( /\ followups[i].state = "sent"
                        /\ followups[i].sent_at # False_
                        /\ followups[i].sent_at + ReminderDays * TicksPerDay <= now
                        /\ followups[i].replied_at = False_ )
                      => RemindersFor(second, i) = RemindersFor(first, i)

\* an overdue record that carries today's reminder: a scan has run, and
\* another one now would find it again
C3_Witness ==
    \E i \in Ids :
        /\ Overdue(followups[i], now)
        /\ RemindersForOn(activities, i, Today(now)) = 1
        /\ AfterScanAt(activities, now) = activities

IsOverdue(i) == i \in Ids /\ Overdue(followups[i], now)

HasReminder(i) == i \in Ids /\ RemindersFor(activities, i) > 0

C5_StateNeverMovesBackward ==
    [][ \A i \in Ids : Rank(followups'[i].state) >= Rank(followups[i].state) ]_vars

\* C6: a closed record stays closed.
C6_ClosedIsTerminal ==
    [][ \A i \in Ids : followups[i].state = "closed" => followups'[i].state = "closed" ]_vars

\* C7: every record's rating is unset or an integer in 1..10.
C7_RatingInRange ==
    \A i \in Ids : followups[i].rating = False_ \/ followups[i].rating \in 1..10

\* a closed record rated 10 next to an unrated one
C7_Witness ==
    \E i, j \in Ids :
        /\ followups[i].rating = 10
        /\ followups[i].state = "closed"
        /\ followups[j].rating = False_

\* C8: setRating(v) stores v and raises nothing for v in 1..10; for any other
\* integer it raises ValidationError and leaves every record as it was.
C8_SetRatingValidates ==
    [][ \A i \in Ids, v \in RatingInputs :
          SetRating(i, v) =>
            IF v >= 1 /\ v <= 10
            THEN /\ followups' = [followups EXCEPT ![i].rating = v]
                 /\ error' = ""
            ELSE /\ followups' = followups
                 /\ error' = "ValidationError" ]_vars

\* a rejected write on a record that keeps the boundary rating 1 it had, in
\* a state other than draft
C8_Witness ==
    /\ error = "ValidationError"
    /\ \E i \in Ids : followups[i].rating = 1 /\ followups[i].state # "draft"

MarkedSent(i) == \E k \in DOMAIN messages[i] : messages[i][k] = MsgSent

LoggedReply(i) == \E k \in DOMAIN messages[i] : messages[i][k] = MsgReply

C10_ReminderIffNoneDueFromToday ==
    TypeResolves =>
        \A k \in DOMAIN SearchOverdue(followups, now) :
            LET i == SearchOverdue(followups, now)[k]
                present == \E a \in BagToSet(activities) :
                              /\ a.res_id = i
                              /\ a.activity_type_id = ResolveActivityType(activity_types)
                              /\ a.user_id = followups[i].assigned_user_id
                              /\ a.date_deadline >= Today(now)
            IN  RemindersFor(AfterScanAt(activities, now), i)
                  = RemindersFor(activities, i) + (IF present THEN 0 ELSE 1)

\* a record still overdue that was reminded, for the same assignee, on two
\* different days
C10_Witness ==
    \E i \in Ids, a, b \in BagToSet(activities) :
        /\ Overdue(followups[i], now)
        /\ a.res_id = i /\ b.res_id = i
        /\ a.user_id = b.user_id
        /\ a.date_deadline < b.date_deadline
        /\ b.date_deadline = Today(now)

\* C11: when neither env.ref nor the name search finds the to-do type, a
\* scan creates no activity, changes no record, posts no message and raises
\* nothing, however many records qualify.
C11_UnresolvedTypeScanIsNoOp ==
    /\ [](~TypeResolves => AfterScanAt(activities, now) = activities)
    /\ [][ (RunScan /\ ~TypeResolves)
            => /\ activities' = activities
               /\ followups' = followups
               /\ messages' = messages
               /\ error' = "" ]_vars

\* two overdue records, no type to be found, and still no activity
C11_Witness ==
    /\ ~TypeResolves
    /\ Len(followups) = MaxRecords
    /\ \A i \in Ids : Overdue(followups[i], now)
    /\ activities = EmptyBag
    /\ error = ""

\* the recordsets whose members can all take one more chatter message
Postable == {S \in Recordsets : \A i \in S : Len(messages[i]) < MaxMessages}

\* C12: whatever the states of the members of a recordset, markSent can be
\* applied and leaves every member sent with sent_at set, logReply leaves
\* every member replied with replied_at set, close leaves every member
\* closed; none raises.
C12_TransitionsHaveNoPrecondition ==
    /\ [](\A S \in Postable :
            /\ ENABLED action_mark_sent_all(S)
            /\ ENABLED action_log_reply_all(S)
            /\ ENABLED action_close_all(S))
    /\ [][ \A S \in Recordsets :
            /\ action_mark_sent_all(S) =>
                 /\ error' = ""
                 /\ \A i \in S : followups'[i].state = "sent" /\ followups'[i].sent_at # False_
            /\ action_log_reply_all(S) =>
                 /\ error' = ""
                 /\ \A i \in S : followups'[i].state = "replied" /\ followups'[i].replied_at # False_
            /\ action_close_all(S) =>
                 /\ error' = ""
                 /\ \A i \in S : followups'[i].state = "closed" ]_vars

\* a closed record that was marked sent, next to a closed record that had
\* a reply logged
C12_Witness ==
    \E i, j \in Ids :
        /\ messages[i] = <<MsgClosed, MsgSent>>
        /\ followups[i].state = "sent" /\ followups[i].sent_at # False_
        /\ messages[j] = <<MsgClosed, MsgReply>>
        /\ followups[j].state = "replied" /\ followups[j].replied_at # False_

\* C13: every markSent call, the first or a repeated one, raises nothing and
\* leaves the record sent with sent_at equal to the time of that call, which
\* is never before the sent_at it replaces; a record already marked sent can
\* be marked sent again.
C13_MarkSentLastWriteWins ==
    /\ [](\A i \in Ids :
            (MarkedSent(i) /\ Len(messages[i]) < MaxMessages)
                => ENABLED action_mark_sent_all({i}))
    /\ [][ \A S \in Recordsets :
            action_mark_sent_all(S) =>
                /\ error' = ""
                /\ \A i \in S :
                      /\ followups'[i].state = "sent"
                      /\ followups'[i].sent_at = now
                      /\ followups[i].sent_at # False_
                            => followups'[i].sent_at >= followups[i].sent_at ]_vars

\* a record marked sent twice, the second time at the end of the horizon
C13_Witness ==
    \E i \in Ids :
        /\ messages[i] = <<MsgSent, MsgSent>>
        /\ followups[i].state = "sent"
        /\ followups[i].sent_at = now
        /\ now = MaxTime

\* C14: every activity a scan creates is attached to a follow-up that
\* matches the search, is due on the day of the scan and is assigned to the
\* user the record is assigned to at that moment.
C14_ReminderFields ==
    LET after == AfterScanAt(activities, now)
    IN  \A a \in BagToSet(after) :
            CopiesIn(a, after) > CopiesIn(a, activities) =>
                /\ a.res_id \in Ids
                /\ followups[a.res_id].state = "sent"
                /\ followups[a.res_id].replied_at = False_
                /\ a.date_deadline = now \div TicksPerDay
                /\ a.user_id = followups[a.res_id].assigned_user_id
                /\ a.activity_type_id = TodoRefId

\* a reminder made today for the second user, to whom the record is assigned,
\* beside an older one made for the first user
C14_Witness ==
    \E i \in Ids, a, b \in BagToSet(activities) :
        /\ followups[i].assigned_user_id = 2
        /\ a.res_id = i /\ a.user_id = 2 /\ a.date_deadline = Today(now)
        /\ b.res_id = i /\ b.user_id = 1 /\ b.date_deadline < Today(now)

\* C15: one scan processes at most BatchLimit records and creates at most
\* BatchLimit activities, however many records qualify.
C15_AtMostBatchLimitPerScan ==
    /\ Len(SearchOverdue(followups, now)) <= BatchLimit
    /\ BagCardinality(AfterScanAt(activities, now)) <= BagCardinality(activities) + BatchLimit

\* more overdue records than the cap, and a scan has reminded exactly
\* BatchLimit of them today
C15_Witness ==
    /\ Cardinality({i \in Ids : Overdue(followups[i], now)}) > BatchLimit
    /\ Cardinality({i \in Ids : RemindersForOn(activities, i, Today(now)) = 1}) = BatchLimit
    /\ BagCardinality(activities) = BatchLimit

\* the row an invocation that passed the existence search is about to create
Pending(p) ==
    [ res_id |-> Current(p), activity_type_id |-> scans[p].type,
      user_id |-> followups[Current(p)].assigned_user_id,
      date_deadline |-> now \div TicksPerDay ]

\* C16: nothing holds back an invocation that found no activity for a
\* record: when two invocations have both passed the existence search for
\* the same record, each can create, and each creation adds a row, also
\* when the other invocation has created the same row meanwhile.
C16_OverlappingScansBothCreate ==
    /\ [](\A p, q \in Procs :
            ( /\ p # q
              /\ scans[p].pc = "create" /\ scans[q].pc = "create"
              /\ Current(p) = Current(q) )
            => ENABLED ScanCreate(p) /\ ENABLED ScanCreate(q))
    /\ [][ \A p \in Procs :
            ScanCreate(p) =>
                CopiesIn(Pending(p), activities') = CopiesIn(Pending(p), activities) + 1 ]_vars

\* both invocations are over and a record carries two reminders for the
\* same assignee and day
C16_Witness ==
    /\ \A p \in Procs : scans[p].pc = "idle"
    /\ \E a \in BagToSet(activities) : CopiesIn(a, activities) = 2

\* C17: once a reply has been logged on a record, a scan neither selects
\* the record nor adds a reminder for it, whatever was applied to the
\* record since, a later markSent included.
C17_NoReminderAfterReply ==
    \A i \in Ids :
        LoggedReply(i) =>
            /\ ~Overdue(followups[i], now)
            /\ \A k \in DOMAIN SearchOverdue(followups, now) :
                    SearchOverdue(followups, now)[k] # i
            /\ RemindersFor(AfterScanAt(activities, now), i) = RemindersFor(activities, i)

\* a record was marked sent again after its reply, has been in state sent
\* for ReminderDays since, and a scan that ran after that gave another
\* record a reminder and this one none
C17_Witness ==
    \E i, j \in Ids, a \in BagToSet(activities) :
        /\ LoggedReply(i) /\ MarkedSent(i)
        /\ followups[i].state = "sent"
        /\ followups[i].replied_at < followups[i].sent_at
        /\ a.res_id = j /\ j # i
        /\ followups[i].sent_at + ReminderDays * TicksPerDay <= a.date_deadline * TicksPerDay
        /\ RemindersFor(activities, i) = 0

\* C18: for records created in draft and changed only by markSent,
\* logReply and close: a sent record has sent_at set, a replied record has
\* replied_at set, and a draft record has neither timestamp.
C18_StateImpliesTimestamps ==
    \A i \in Ids :
        /\ followups[i].state = "sent" => followups[i].sent_at # False_
        /\ followups[i].state = "replied" => followups[i].replied_at # False_
        /\ followups[i].state = "draft" =>
                followups[i].sent_at = False_ /\ followups[i].replied_at = False_

\* one record was replied to straight from draft, another was marked sent
\* again after its reply
C18_Witness ==
    \E i, j \in Ids :
        /\ followups[i].state = "replied" /\ followups[i].sent_at = False_
        /\ followups[i].replied_at # False_
        /\ followups[j].state = "sent" /\ LoggedReply(j)
        /\ followups[j].replied_at < followups[j].sent_at

\* C19: a scan changes no field of any record and appends nothing to any
\* record's message log; it only adds rows to the activity table.
C19_ScanLeavesRecordsUnchanged ==
    [][ RunScan =>
            /\ followups' = followups
            /\ messages' = messages
            /\ now' = now /\ activity_types' = activity_types
            /\ \A a \in BagToSet(activities) :
                    CopiesIn(a, activities') >= CopiesIn(a, activities) ]_vars

\* a scan has just given a record its reminder; the record is as markSent
\* left it
C19_Witness ==
    \E a \in BagToSet(activities) :
        /\ a.date_deadline = Today(now)
        /\ followups[a.res_id].state = "sent"
        /\ followups[a.res_id].replied_at = False_
        /\ followups[a.res_id].sent_at + ReminderDays * TicksPerDay <= now
        /\ messages[a.res_id] = <<MsgSent>>

====
